---- MODULE Spec2Model ----
(***************************************************************************)
(* Model of src/data/generate_data.py: the orchestrator main(), the bulk   *)
(* loader insert_data_to_db(), and the generators' date, price and         *)
(* random-draw arithmetic.                                                 *)
(*                                                                         *)
(* Spec       main() from connect to return, against a store whose every   *)
(*            operation can succeed, raise a mysql Error, or drop the      *)
(*            connection.                                                  *)
(* SpecDates  registration_date / order_date / ship_date arithmetic.       *)
(* SpecPrice  cost_price / list_price arithmetic in integer cents.         *)
(* SpecRepro  two runs of the customer generator from the same seed.       *)
(***************************************************************************)
EXTENDS Integers, Sequences, FiniteSets, TLC

(***************************************************************************)
(* Bounds: the counts main() passes to the generators (10000, 1000, 50,    *)
(* 50000), scaled down.                                                    *)
(***************************************************************************)
NCustomers == 2
NProducts == 2
NCampaigns == 1
NOrders == 1

VARIABLES
    pc,              \* position of main()
    conn,            \* "none" | "open" | "lost" | "closed"
    fk_checks,       \* the session's FOREIGN_KEY_CHECKS
    db,              \* committed rows of each table
    tix,             \* index of the next TRUNCATE statement
    customers_df, products_df, campaigns_df,
    orders_df, order_items_df, acquisitions_df,
    fetched,         \* result of the last cursor.fetchall()
    queries,         \* statements issued to the store, in order
    steps,           \* store operations, merges and the run of the transactional
                     \* generator main() has started, in order
    outcome,         \* how each insert_data_to_db call ended
    cursors, commits, rollbacks,   \* calls of cursor(), commit(), rollback()
    raised,          \* exception propagating in main(), or "none"
    logged,          \* error messages printed
    failed,          \* some step of this run has failed
    \* --- dates of one customer and one order (SpecDates)
    dpc, today, registration_date, order_date, ship_offsets, ship_offset,
    ship_date,
    \* --- prices of one product, in cents (SpecPrice)
    ppc, category, cost_price, markup, list_price,
    \* --- two runs of generate_customers from one seed (SpecRepro)
    stream,          \* the raw draws the seeded generators deliver, in order
    run_today,       \* the current date of each run
    run_out          \* the registration dates each run has generated

mainVars == <<pc, conn, fk_checks, db, tix, customers_df, products_df,
              campaigns_df, orders_df, order_items_df, acquisitions_df,
              fetched, queries, steps, outcome, cursors, commits, rollbacks,
              raised, logged, failed>>

dfVars == <<customers_df, products_df, campaigns_df,
            orders_df, order_items_df, acquisitions_df>>

dateVars == <<dpc, today, registration_date, order_date, ship_offsets,
              ship_offset, ship_date>>

priceVars == <<ppc, category, cost_price, markup, list_price>>

reproVars == <<stream, run_today, run_out>>

vars == <<mainVars, dateVars, priceVars, reproVars>>

(***************************************************************************)
(* The store                                                               *)
(***************************************************************************)
\* the six tables, in the order main() inserts into them
Tables == <<"customers", "products", "marketing_campaigns",
            "orders", "order_items", "customer_acquisition">>

TableSet == {Tables[i] : i \in 1..Len(Tables)}

\* a mutation of TruncateOrder: parents truncated before their children
TruncateOrder_parents_first ==
    <<"customers", "products", "marketing_campaigns",
      "orders", "order_items", "customer_acquisition">>

\* the TRUNCATE statements of main(), in program order
TruncateOrder ==
    <<"customer_acquisition", "order_items", "orders",
      "marketing_campaigns", "products", "customers">>

\* NaN / None in an identity column
Null == 0

EmptyDb == [t \in TableSet |-> {}]

\* rows left by an earlier run of the script
StaleDb ==
    [customers            |-> {[customer_id |-> 7, email |-> 17]},
     products             |-> {[product_id |-> 7]},
     marketing_campaigns  |-> {[campaign_id |-> 7]},
     orders               |-> {[order_id |-> 7, customer_id |-> 7]},
     order_items          |-> {[order_item_id |-> 7, order_id |-> 7, product_id |-> 7]},
     customer_acquisition |-> {[acquisition_id |-> 7, customer_id |-> 7, campaign_id |-> 7]}]

\* fake.unique.email(): distinct for distinct customers
Email(i) == 10 + i

RECURSIVE OrderBy(_)
\* ORDER BY on a set of integer keys
OrderBy(S) ==
    IF S = {} THEN <<>>
    ELSE LET m == CHOOSE x \in S : \A y \in S : x <= y
         IN  <<m>> \o OrderBy(S \ {m})

\* the rows executemany() commits for table t from df; the store assigns the
\* auto-increment identity in insertion order, from 1 after TRUNCATE
Rows(t, df) ==
    CASE t = "customers" ->
            {[customer_id |-> i, email |-> df[i].email] : i \in 1..Len(df)}
      [] t = "products" -> {[product_id |-> i] : i \in 1..Len(df)}
      [] t = "marketing_campaigns" -> {[campaign_id |-> i] : i \in 1..Len(df)}
      [] t = "orders" ->
            {[order_id |-> df[i].order_id, customer_id |-> df[i].customer_id]
                : i \in 1..Len(df)}
      [] t = "order_items" ->
            {[order_item_id |-> i, order_id |-> df[i].order_id,
              product_id |-> df[i].product_id] : i \in 1..Len(df)}
      [] t = "customer_acquisition" ->
            {[acquisition_id |-> i, customer_id |-> df[i].customer_id,
              campaign_id |-> df[i].campaign_id] : i \in 1..Len(df)}

\* what a statement sent to the store can do: succeed, raise a mysql Error
\* with the connection still usable, or raise because the connection is gone
StoreOutcomes == {"ok", "error", "lost"}

(***************************************************************************)
(* Exceptions in main()                                                    *)
(***************************************************************************)
\* `except Exception as e` at the top level of main()
Catches(exc) == exc \in {"Error", "Exception"}

\* an exception leaves the try body of main()
Raise(exc) ==
    /\ pc' = "except"
    /\ raised' = exc
    /\ failed' = TRUE

\* cursor.execute(q) in main(): the statement, or an Error out of the try body
Execute(q, next, o) ==
    /\ conn = "open"
    /\ CASE o = "ok" ->
              /\ queries' = Append(queries, q)
              /\ pc' = next
              /\ UNCHANGED <<conn, raised, failed>>
         [] o = "error" ->
              /\ queries' = Append(queries, q)
              /\ Raise("Error")
              /\ UNCHANGED conn
         [] o = "lost" ->
              /\ conn' = "lost"
              /\ Raise("Error")
              /\ UNCHANGED queries

(***************************************************************************)
(* connect_to_database and the start of main()                             *)
(***************************************************************************)
\* the variables of the other specifications, at rest
DatesIdle ==
    /\ dpc = "idle"
    /\ today = 0
    /\ registration_date = 0
    /\ order_date = 0
    /\ ship_offsets = {}
    /\ ship_offset = 0
    /\ ship_date = 0

PriceIdle ==
    /\ ppc = "idle"
    /\ category = "none"
    /\ cost_price = 0
    /\ markup = 0
    /\ list_price = 0

ReproIdle ==
    /\ stream = <<>>
    /\ run_today = <<0, 0>>
    /\ run_out = <<<<>>, <<>>>>

MainIdle ==
    /\ pc = "idle"
    /\ conn = "none"
    /\ fk_checks = TRUE
    /\ db = EmptyDb
    /\ tix = 1
    /\ customers_df = <<>>
    /\ products_df = <<>>
    /\ campaigns_df = <<>>
    /\ orders_df = <<>>
    /\ order_items_df = <<>>
    /\ acquisitions_df = <<>>
    /\ fetched = <<>>
    /\ queries = <<>>
    /\ steps = <<>>
    /\ outcome = [t \in TableSet |-> "none"]
    /\ cursors = 0
    /\ commits = 0
    /\ rollbacks = 0
    /\ raised = "none"
    /\ logged = {}
    /\ failed = FALSE

Init ==
    /\ pc = "connect"
    /\ conn = "none"
    /\ fk_checks = TRUE
    /\ db \in {EmptyDb, StaleDb}
    /\ tix = 1
    /\ customers_df = <<>>
    /\ products_df = <<>>
    /\ campaigns_df = <<>>
    /\ orders_df = <<>>
    /\ order_items_df = <<>>
    /\ acquisitions_df = <<>>
    /\ fetched = <<>>
    /\ queries = <<>>
    /\ steps = <<>>
    /\ outcome = [t \in TableSet |-> "none"]
    /\ cursors = 0
    /\ commits = 0
    /\ rollbacks = 0
    /\ raised = "none"
    /\ logged = {}
    /\ failed = FALSE
    /\ DatesIdle
    /\ PriceIdle
    /\ ReproIdle

\* connect_to_database(): a connection, or None (main() then returns at once)
connect_to_database ==
    /\ pc = "connect"
    /\ \E ok \in BOOLEAN :
         IF ok
         THEN /\ conn' = "open"
              /\ pc' = "cursor"
              /\ UNCHANGED <<logged, failed>>
         ELSE /\ conn' = "none"
              /\ pc' = "done"
              /\ logged' = logged \cup {"connect"}
              /\ failed' = TRUE
    /\ UNCHANGED <<fk_checks, db, tix, customers_df, products_df, campaigns_df,
                   orders_df, order_items_df, acquisitions_df, fetched, queries,
                   steps, outcome, cursors, commits, rollbacks, raised>>
    /\ UNCHANGED <<dateVars, priceVars, reproVars>>

\* `cursor = connection.cursor()` at the top of the try body
OpenCursor ==
    /\ pc = "cursor"
    /\ conn = "open"
    /\ \E o \in {"ok", "lost"} :
         IF o = "ok"
         THEN /\ cursors' = cursors + 1
              /\ pc' = "fk_off"
              /\ UNCHANGED <<conn, raised, failed>>
         ELSE /\ conn' = "lost"
              /\ Raise("Error")
              /\ UNCHANGED cursors
    /\ UNCHANGED <<fk_checks, db, tix, dfVars, fetched, queries, steps,
                   outcome, commits, rollbacks, logged>>
    /\ UNCHANGED <<dateVars, priceVars, reproVars>>

\* SET FOREIGN_KEY_CHECKS = 0
DisableForeignKeyChecks ==
    /\ pc = "fk_off"
    /\ steps' = Append(steps, <<"fk_checks", "0">>)
    /\ \E o \in StoreOutcomes :
         /\ Execute(<<"SET FOREIGN_KEY_CHECKS", "0">>, "truncate", o)
         /\ fk_checks' = IF o = "ok" THEN FALSE ELSE fk_checks
    /\ UNCHANGED <<db, tix, dfVars, fetched, outcome, cursors, commits,
                   rollbacks, logged>>
    /\ UNCHANGED <<dateVars, priceVars, reproVars>>

\* the tix-th TRUNCATE TABLE statement
Truncate ==
    /\ pc = "truncate"
    /\ LET t == TruncateOrder[tix] IN
         /\ steps' = Append(steps, <<"truncate", t>>)
         /\ \E o \in StoreOutcomes :
              /\ Execute(<<"TRUNCATE", t>>,
                         IF tix = Len(TruncateOrder) THEN "fk_on" ELSE "truncate", o)
              /\ db' = IF o = "ok" THEN [db EXCEPT ![t] = {}] ELSE db
              /\ tix' = IF o = "ok" THEN tix + 1 ELSE tix
    /\ UNCHANGED <<fk_checks, dfVars, fetched, outcome, cursors, commits,
                   rollbacks, logged>>
    /\ UNCHANGED <<dateVars, priceVars, reproVars>>

\* SET FOREIGN_KEY_CHECKS = 1, then cursor.close()
EnableForeignKeyChecks ==
    /\ pc = "fk_on"
    /\ steps' = Append(steps, <<"fk_checks", "1">>)
    /\ \E o \in StoreOutcomes :
         /\ Execute(<<"SET FOREIGN_KEY_CHECKS", "1">>, "gen_customers", o)
         /\ fk_checks' = IF o = "ok" THEN TRUE ELSE fk_checks
    /\ UNCHANGED <<db, tix, dfVars, fetched, outcome, cursors, commits,
                   rollbacks, logged>>
    /\ UNCHANGED <<dateVars, priceVars, reproVars>>

(***************************************************************************)
(* The entity generators, as far as main() depends on them: the number of  *)
(* rows, the unique email, and the absence of an identity column.          *)
(***************************************************************************)
generate_customers ==
    /\ pc = "gen_customers"
    /\ customers_df' = [i \in 1..NCustomers |-> [email |-> Email(i)]]
    /\ pc' = "gen_products"
    /\ UNCHANGED <<conn, fk_checks, db, tix, products_df, campaigns_df,
                   orders_df, order_items_df, acquisitions_df, fetched, queries,
                   steps, outcome, cursors, commits, rollbacks, raised, logged,
                   failed>>
    /\ UNCHANGED <<dateVars, priceVars, reproVars>>

generate_products ==
    /\ pc = "gen_products"
    /\ products_df' = [i \in 1..NProducts |-> [product_name |-> i]]
    /\ pc' = "gen_campaigns"
    /\ UNCHANGED <<conn, fk_checks, db, tix, customers_df, campaigns_df,
                   orders_df, order_items_df, acquisitions_df, fetched, queries,
                   steps, outcome, cursors, commits, rollbacks, raised, logged,
                   failed>>
    /\ UNCHANGED <<dateVars, priceVars, reproVars>>

generate_campaigns ==
    /\ pc = "gen_campaigns"
    /\ campaigns_df' = [i \in 1..NCampaigns |-> [campaign_name |-> i]]
    /\ pc' = "ins_customers"
    /\ UNCHANGED <<conn, fk_checks, db, tix, customers_df, products_df,
                   orders_df, order_items_df, acquisitions_df, fetched, queries,
                   steps, outcome, cursors, commits, rollbacks, raised, logged,
                   failed>>
    /\ UNCHANGED <<dateVars, priceVars, reproVars>>

(***************************************************************************)
(* insert_data_to_db                                                       *)
(***************************************************************************)
\* a mutation of IsEmpty: the guard is never taken
IsEmpty_never(df) == FALSE

\* `if df.empty`
IsEmpty(df) == Len(df) = 0

\* a mutation of OnInsertError: the handler re-raises after the rollback
OnInsertError_reraise(t, next) ==
    /\ logged' = logged \cup {t}
    /\ rollbacks' = rollbacks + 1
    /\ outcome' = [outcome EXCEPT ![t] = "rolled_back"]
    /\ Raise("Error")
    /\ UNCHANGED <<db, commits, conn>>

\* `except Error as e`: print, connection.rollback(); the Error goes no further
OnInsertError(t, next) ==
    /\ logged' = logged \cup {t}
    /\ rollbacks' = rollbacks + 1
    /\ outcome' = [outcome EXCEPT ![t] = "rolled_back"]
    /\ pc' = next
    /\ failed' = TRUE
    /\ UNCHANGED <<db, commits, conn, raised>>

\* the outcomes of a call with a non-empty table:
\*   ok          executemany() and commit() succeed
\*   error       executemany() or commit() raises an Error, rollback() succeeds
\*   lost        executemany() raises because the connection dropped; the
\*               rollback() in the handler raises too, out of the function
\*   no_cursor   connection.cursor() raises (it is outside the try)
InsertOutcomes == {"ok", "error", "lost", "no_cursor"}

\* insert_data_to_db(connection, t, df), called by main() at position p
insert_data_to_db(p, t, df, next) ==
    /\ pc = p
    /\ conn = "open"
    /\ steps' = Append(steps, <<"insert", t>>)
    /\ IF IsEmpty(df)
       THEN /\ outcome' = [outcome EXCEPT ![t] = "empty"]
            /\ pc' = next
            /\ UNCHANGED <<conn, db, queries, cursors, commits, rollbacks,
                           raised, logged, failed>>
       ELSE \E o \in InsertOutcomes :
              CASE o = "ok" ->
                     /\ cursors' = cursors + 1
                     /\ queries' = Append(queries, <<"INSERT", t>>)
                     /\ db' = [db EXCEPT ![t] = @ \cup Rows(t, df)]
                     /\ commits' = commits + 1
                     /\ outcome' = [outcome EXCEPT ![t] = "ok"]
                     /\ pc' = next
                     /\ UNCHANGED <<conn, rollbacks, raised, logged, failed>>
                [] o = "error" ->
                     /\ cursors' = cursors + 1
                     /\ queries' = Append(queries, <<"INSERT", t>>)
                     /\ OnInsertError(t, next)
                [] o = "lost" ->
                     /\ cursors' = cursors + 1
                     /\ queries' = Append(queries, <<"INSERT", t>>)
                     /\ logged' = logged \cup {t}
                     /\ rollbacks' = rollbacks + 1
                     /\ outcome' = [outcome EXCEPT ![t] = "rollback_raised"]
                     /\ conn' = "lost"
                     /\ Raise("Error")
                     /\ UNCHANGED <<db, commits>>
                [] o = "no_cursor" ->
                     /\ outcome' = [outcome EXCEPT ![t] = "cursor_raised"]
                     /\ conn' = "lost"
                     /\ Raise("Error")
                     /\ UNCHANGED <<db, queries, cursors, commits, rollbacks,
                                    logged>>
    /\ UNCHANGED <<fk_checks, tix, dfVars, fetched>>
    /\ UNCHANGED <<dateVars, priceVars, reproVars>>

InsertCustomers ==
    insert_data_to_db("ins_customers", "customers", customers_df, "sel_customers")

InsertProducts ==
    insert_data_to_db("ins_products", "products", products_df, "ins_campaigns")

InsertCampaigns ==
    insert_data_to_db("ins_campaigns", "marketing_campaigns", campaigns_df,
                      "sel_products")

InsertOrders ==
    insert_data_to_db("ins_orders", "orders", orders_df, "ins_items")

InsertOrderItems ==
    insert_data_to_db("ins_items", "order_items", order_items_df, "ins_acq")

InsertAcquisitions ==
    insert_data_to_db("ins_acq", "customer_acquisition", acquisitions_df,
                      "summary")

(***************************************************************************)
(* Identity read-back and merge                                            *)
(***************************************************************************)
\* SELECT customer_id, email FROM customers ORDER BY customer_id
CustomerData ==
    LET ids == OrderBy({r.customer_id : r \in db["customers"]})
        row(id) == CHOOSE r \in db["customers"] : r.customer_id = id
    IN  [k \in 1..Len(ids) |-> <<ids[k], row(ids[k]).email>>]

\* a second cursor(), the SELECT on customers, fetchall()
SelectCustomers ==
    /\ pc = "sel_customers"
    /\ conn = "open"
    /\ steps' = Append(steps, <<"select", "customers">>)
    /\ \E o \in StoreOutcomes :
         /\ Execute(<<"SELECT", "customers">>, "merge_customers", o)
         /\ cursors' = IF o = "lost" THEN cursors ELSE cursors + 1
         /\ fetched' = IF o = "ok" THEN CustomerData ELSE fetched
    /\ UNCHANGED <<fk_checks, db, tix, dfVars, outcome, commits, rollbacks,
                   logged>>
    /\ UNCHANGED <<dateVars, priceVars, reproVars>>

\* email_to_id, as a lookup: the identity fetched for an email, NaN if none
EmailToId(data, email) ==
    IF \E k \in 1..Len(data) : data[k][2] = email
    THEN LET k == CHOOSE j \in 1..Len(data) :
                     /\ data[j][2] = email
                     /\ \A m \in (j + 1)..Len(data) : data[m][2] # email
         IN  data[k][1]
    ELSE Null

\* customers_df['customer_id'] = customers_df['email'].map(email_to_id)
MergeCustomers ==
    /\ pc = "merge_customers"
    /\ steps' = Append(steps, <<"merge", "customers">>)
    /\ customers_df' =
         [i \in 1..Len(customers_df) |->
            [email |-> customers_df[i].email,
             customer_id |-> EmailToId(fetched, customers_df[i].email)]]
    /\ pc' = "ins_products"
    /\ UNCHANGED <<conn, fk_checks, db, tix, products_df, campaigns_df,
                   orders_df, order_items_df, acquisitions_df, fetched, queries,
                   outcome, cursors, commits, rollbacks, raised, logged, failed>>
    /\ UNCHANGED <<dateVars, priceVars, reproVars>>

\* SELECT product_id FROM products ORDER BY product_id
SelectProducts ==
    /\ pc = "sel_products"
    /\ steps' = Append(steps, <<"select", "products">>)
    /\ \E o \in StoreOutcomes :
         /\ Execute(<<"SELECT", "products">>, "merge_products", o)
         /\ fetched' = IF o = "ok"
                       THEN OrderBy({r.product_id : r \in db["products"]})
                       ELSE fetched
    /\ UNCHANGED <<fk_checks, db, tix, dfVars, outcome, cursors, commits,
                   rollbacks, logged>>
    /\ UNCHANGED <<dateVars, priceVars, reproVars>>

\* products_df['product_id'] = product_ids: a ValueError unless the lengths agree
MergeProducts ==
    /\ pc = "merge_products"
    /\ steps' = Append(steps, <<"merge", "products">>)
    /\ IF Len(fetched) = Len(products_df)
       THEN /\ products_df' =
                 [i \in 1..Len(products_df) |->
                    [product_name |-> products_df[i].product_name,
                     product_id |-> fetched[i]]]
            /\ pc' = "sel_campaigns"
            /\ UNCHANGED <<raised, failed>>
       ELSE /\ Raise("Exception")
            /\ UNCHANGED products_df
    /\ UNCHANGED <<conn, fk_checks, db, tix, customers_df, campaigns_df,
                   orders_df, order_items_df, acquisitions_df, fetched, queries,
                   outcome, cursors, commits, rollbacks, logged>>
    /\ UNCHANGED <<dateVars, priceVars, reproVars>>

\* SELECT campaign_id FROM marketing_campaigns ORDER BY campaign_id
SelectCampaigns ==
    /\ pc = "sel_campaigns"
    /\ steps' = Append(steps, <<"select", "marketing_campaigns">>)
    /\ \E o \in StoreOutcomes :
         /\ Execute(<<"SELECT", "marketing_campaigns">>, "merge_campaigns", o)
         /\ fetched' = IF o = "ok"
                       THEN OrderBy({r.campaign_id : r \in db["marketing_campaigns"]})
                       ELSE fetched
    /\ UNCHANGED <<fk_checks, db, tix, dfVars, outcome, cursors, commits,
                   rollbacks, logged>>
    /\ UNCHANGED <<dateVars, priceVars, reproVars>>

\* campaigns_df['campaign_id'] = campaign_ids: a ValueError unless the lengths agree
MergeCampaigns ==
    /\ pc = "merge_campaigns"
    /\ steps' = Append(steps, <<"merge", "marketing_campaigns">>)
    /\ IF Len(fetched) = Len(campaigns_df)
       THEN /\ campaigns_df' =
                 [i \in 1..Len(campaigns_df) |->
                    [campaign_name |-> campaigns_df[i].campaign_name,
                     campaign_id |-> fetched[i]]]
            /\ pc' = "gen_start"
            /\ UNCHANGED <<raised, failed>>
       ELSE /\ Raise("Exception")
            /\ UNCHANGED campaigns_df
    /\ UNCHANGED <<conn, fk_checks, db, tix, customers_df, products_df,
                   orders_df, order_items_df, acquisitions_df, fetched, queries,
                   outcome, cursors, commits, rollbacks, logged>>
    /\ UNCHANGED <<dateVars, priceVars, reproVars>>

(***************************************************************************)
(* generate_orders_and_items, as far as the identities are concerned       *)
(***************************************************************************)
\* n_items = np.random.choice([1, 2, 3, 4, 5], ...)
ItemCounts == 1..5

RECURSIVE ItemRows(_, _, _)
\* one order_items row per sampled product (the rows of a sample come in a
\* random order; the order of rows within one order decides nothing here)
ItemRows(order_id, products, S) ==
    IF S = {} THEN <<>>
    ELSE LET i == CHOOSE x \in S : \A y \in S : x <= y
         IN  <<[order_id |-> order_id, product_id |-> products[i].product_id]>>
             \o ItemRows(order_id, products, S \ {i})

\* entry of generate_orders_and_items: empty lists, the segment column
\* (every segment has a positive weight, so every customer can be drawn)
GenerateStart ==
    /\ pc = "gen_start"
    /\ steps' = Append(steps, <<"generate", "orders">>)
    /\ orders_df' = <<>>
    /\ order_items_df' = <<>>
    /\ acquisitions_df' = <<>>
    /\ pc' = "gen_orders"
    /\ UNCHANGED <<conn, fk_checks, db, tix, customers_df, products_df,
                   campaigns_df, fetched, queries, outcome, cursors, commits,
                   rollbacks, raised, logged, failed>>
    /\ UNCHANGED <<dateVars, priceVars, reproVars>>

\* one iteration of `for order_id in range(1, n_orders + 1)`
GenerateOrder ==
    /\ pc = "gen_orders"
    /\ LET order_id == Len(orders_df) + 1 IN
       \E customer_idx \in 1..Len(customers_df), n_items \in ItemCounts :
         LET customer == customers_df[customer_idx] IN
         /\ orders_df' = Append(orders_df,
                [order_id |-> order_id, customer_id |-> customer.customer_id])
         /\ IF n_items > Len(products_df)
            THEN \* products_df.sample(n_items) raises a ValueError
                 /\ Raise("Exception")
                 /\ UNCHANGED <<order_items_df, acquisitions_df>>
            ELSE /\ \E S \in SUBSET (1..Len(products_df)) :
                       /\ Cardinality(S) = n_items
                       /\ order_items_df' =
                            order_items_df \o ItemRows(order_id, products_df, S)
                 /\ \E acquired \in BOOLEAN :
                       IF acquired
                       THEN \E c \in 1..Len(campaigns_df) :
                              acquisitions_df' = Append(acquisitions_df,
                                 [customer_id |-> customer.customer_id,
                                  campaign_id |-> campaigns_df[c].campaign_id])
                       ELSE UNCHANGED acquisitions_df
                 /\ pc' = IF order_id = NOrders THEN "ins_orders" ELSE "gen_orders"
                 /\ UNCHANGED <<raised, failed>>
    /\ UNCHANGED <<conn, fk_checks, db, tix, customers_df, products_df,
                   campaigns_df, fetched, queries, steps, outcome, cursors,
                   commits, rollbacks, logged>>
    /\ UNCHANGED <<dateVars, priceVars, reproVars>>

(***************************************************************************)
(* The end of main()                                                       *)
(***************************************************************************)
\* the row-count query, fetchall(), the summary, cursor.close()
Summary ==
    /\ pc = "summary"
    /\ steps' = Append(steps, <<"select", "counts">>)
    /\ \E o \in StoreOutcomes :
         Execute(<<"SELECT", "counts">>, "finally", o)
    /\ UNCHANGED <<fk_checks, db, tix, dfVars, fetched, outcome, cursors,
                   commits, rollbacks, logged>>
    /\ UNCHANGED <<dateVars, priceVars, reproVars>>

\* `except Exception as e`: print the error and the trace
Except ==
    /\ pc = "except"
    /\ IF Catches(raised)
       THEN /\ raised' = "none"
            /\ logged' = logged \cup {"main"}
       ELSE UNCHANGED <<raised, logged>>
    /\ pc' = "finally"
    /\ UNCHANGED <<conn, fk_checks, db, tix, dfVars, fetched, queries, steps,
                   outcome, cursors, commits, rollbacks, failed>>
    /\ UNCHANGED <<dateVars, priceVars, reproVars>>

\* a mutation of CloseIfConnected: the connection is left as it is
CloseIfConnected_never(c) == c

\* `if connection and connection.is_connected(): connection.close()`
CloseIfConnected(c) == IF c = "open" THEN "closed" ELSE c

\* the finally block, then main() returns
Finally ==
    /\ pc = "finally"
    /\ conn' = CloseIfConnected(conn)
    /\ pc' = "done"
    /\ UNCHANGED <<fk_checks, db, tix, dfVars, fetched, queries, steps,
                   outcome, cursors, commits, rollbacks, raised, logged, failed>>
    /\ UNCHANGED <<dateVars, priceVars, reproVars>>

Next ==
    \/ connect_to_database
    \/ OpenCursor
    \/ DisableForeignKeyChecks
    \/ Truncate
    \/ EnableForeignKeyChecks
    \/ generate_customers
    \/ generate_products
    \/ generate_campaigns
    \/ InsertCustomers
    \/ SelectCustomers
    \/ MergeCustomers
    \/ InsertProducts
    \/ InsertCampaigns
    \/ SelectProducts
    \/ MergeProducts
    \/ SelectCampaigns
    \/ MergeCampaigns
    \/ GenerateStart
    \/ GenerateOrder
    \/ InsertOrders
    \/ InsertOrderItems
    \/ InsertAcquisitions
    \/ Summary
    \/ Except
    \/ Finally


Spec == Init /\ [][Next]_vars

(***************************************************************************)
(* Properties of main() and insert_data_to_db, checked under Spec          *)
(***************************************************************************)
\* the table each insert_data_to_db call of main() is given
DfOf(t) ==
    CASE t = "customers" -> customers_df
      [] t = "products" -> products_df
      [] t = "marketing_campaigns" -> campaigns_df
      [] t = "orders" -> orders_df
      [] t = "order_items" -> order_items_df
      [] t = "customer_acquisition" -> acquisitions_df

\* the position of main() at each insert_data_to_db call
InsertPc(t) ==
    CASE t = "customers" -> "ins_customers"
      [] t = "products" -> "ins_products"
      [] t = "marketing_campaigns" -> "ins_campaigns"
      [] t = "orders" -> "ins_orders"
      [] t = "order_items" -> "ins_items"
      [] t = "customer_acquisition" -> "ins_acq"

\* executemany() was issued for the table and did not commit
InsertFailed(t) == outcome[t] \in {"rolled_back", "rollback_raised"}

\* executemany() was issued for the table
Submitted(t) == outcome[t] \in {"ok", "rolled_back", "rollback_raised"}

\* insert_data_to_db was called for the table
Attempted(t) == outcome[t] # "none"

\* the number of insert_data_to_db calls main() has made for a table
InsertCalls(t) ==
    Cardinality({k \in 1..Len(steps) : steps[k] = <<"insert", t>>})

\* C1: after a failed insert into any table main() attempts no insert into
\* any later table of the run, and no table is inserted into twice.
C1_FailedInsertIsFatal ==
    /\ \A i \in 1..Len(Tables) :
         InsertFailed(Tables[i]) =>
            \A j \in (i + 1)..Len(Tables) : ~Attempted(Tables[j])
    /\ \A t \in TableSet : InsertCalls(t) <= 1

\* C2 as stated: whenever the insert into orders fails, nothing is committed
\* or lost by the call, the failure is logged and not raised to main(), and
\* main() goes on to the insert into order_items.
C2_OrdersFailureNeverRaised ==
    InsertFailed("orders") =>
        /\ db["orders"] = {}
        /\ "orders" \in logged
        /\ pc = "ins_items" \/ Attempted("order_items")

\* the rows an earlier, committed insert of this run put into a parent table
Committed(t) == IF outcome[t] = "ok" THEN Rows(t, DfOf(t)) ELSE {}

\* C2 as amended: when the insert into orders fails with a store Error and
\* the rollback succeeds (the connection is still usable), no orders row is
\* committed, the rows committed earlier for customers, products and
\* marketing_campaigns stay committed, the failure is logged and not raised
\* to main(), main() goes on to call insert_data_to_db for order_items and,
\* once that call has returned, for customer_acquisition.
C2_OrdersRollbackContinues ==
    outcome["orders"] = "rolled_back" =>
        /\ db["orders"] = {}
        /\ \A t \in {"customers", "products", "marketing_campaigns"} :
              db[t] = Committed(t)
        /\ db["products"] # {} /\ db["marketing_campaigns"] # {}
        /\ "orders" \in logged
        /\ pc = "ins_items" \/ Attempted("order_items")
        /\ pc = "ins_items" => raised = "none"
        /\ outcome["order_items"] \in {"ok", "rolled_back", "empty"} =>
              pc = "ins_acq" \/ Attempted("customer_acquisition")

\* the orders insert was rolled back and both later inserts were still made
C2_Witness ==
    /\ outcome["orders"] = "rolled_back"
    /\ outcome["order_items"] \in {"ok", "rolled_back"}
    /\ outcome["customer_acquisition"] \in {"ok", "rolled_back"}

\* the identities committed in a table
Ids(t, field) == {r[field] : r \in db[t]}

\* every foreign key of the rows submitted for table t is a non-null identity
\* committed in the parent table
ForeignKeysResolved(t) ==
    CASE t = "orders" ->
            \A i \in 1..Len(orders_df) :
               /\ orders_df[i].customer_id # Null
               /\ orders_df[i].customer_id \in Ids("customers", "customer_id")
      [] t = "order_items" ->
            \A i \in 1..Len(order_items_df) :
               /\ order_items_df[i].order_id # Null
               /\ order_items_df[i].order_id \in Ids("orders", "order_id")
               /\ order_items_df[i].product_id # Null
               /\ order_items_df[i].product_id \in Ids("products", "product_id")
      [] t = "customer_acquisition" ->
            \A i \in 1..Len(acquisitions_df) :
               /\ acquisitions_df[i].customer_id # Null
               /\ acquisitions_df[i].customer_id \in Ids("customers", "customer_id")
               /\ acquisitions_df[i].campaign_id # Null
               /\ acquisitions_df[i].campaign_id
                     \in Ids("marketing_campaigns", "campaign_id")

\* C3: in every run, every row main() submits for insertion into orders,
\* order_items or customer_acquisition carries foreign keys that are non-null
\* identities of rows already committed in the parent table.  (The parent
\* tables and the submitted table do not change after the submission.)
C3_ForeignKeysCommitted ==
    \A t \in {"orders", "order_items", "customer_acquisition"} :
        Submitted(t) => ForeignKeysResolved(t)

\* the operations of a run of main() in which nothing fails
ExpectedSteps ==
    <<<<"fk_checks", "0">>,
      <<"truncate", "customer_acquisition">>,
      <<"truncate", "order_items">>,
      <<"truncate", "orders">>,
      <<"truncate", "marketing_campaigns">>,
      <<"truncate", "products">>,
      <<"truncate", "customers">>,
      <<"fk_checks", "1">>,
      <<"insert", "customers">>,
      <<"select", "customers">>,
      <<"merge", "customers">>,
      <<"insert", "products">>,
      <<"insert", "marketing_campaigns">>,
      <<"select", "products">>,
      <<"merge", "products">>,
      <<"select", "marketing_campaigns">>,
      <<"merge", "marketing_campaigns">>,
      <<"generate", "orders">>,
      <<"insert", "orders">>,
      <<"insert", "order_items">>,
      <<"insert", "customer_acquisition">>,
      <<"select", "counts">>>>

\* the parent tables of each table
Parents(t) ==
    CASE t = "orders" -> {"customers"}
      [] t = "order_items" -> {"orders", "products"}
      [] t = "customer_acquisition" -> {"customers", "marketing_campaigns"}
      [] OTHER -> {}

\* C4: in a run that obtains a connection and in which no step fails, the
\* operations of main() are exactly ExpectedSteps, in that order; and in
\* every run no INSERT is issued before all six TRUNCATEs and the
\* re-enabling of the foreign-key checks, and no INSERT into a parent table
\* is issued after an INSERT into one of its children.
C4_OperationOrder ==
    /\ (pc = "done" /\ ~failed) => steps = ExpectedSteps
    /\ \A k \in 1..Len(queries) :
          queries[k][1] = "INSERT" =>
             /\ \A t \in TableSet :
                   \E j \in 1..(k - 1) : queries[j] = <<"TRUNCATE", t>>
             /\ \E j \in 1..(k - 1) : queries[j] = <<"SET FOREIGN_KEY_CHECKS", "1">>
             /\ \A j \in 1..(k - 1) :
                   queries[j][1] = "INSERT" =>
                      queries[k][2] \notin Parents(queries[j][2])
    /\ \A k \in 1..Len(queries) :
          queries[k][1] = "TRUNCATE" =>
             \A j \in 1..(k - 1) :
                queries[j][1] = "TRUNCATE" =>
                   queries[j][2] \notin Parents(queries[k][2])

\* a run without any failure has returned, all six tables inserted
C4_Witness ==
    /\ pc = "done"
    /\ ~failed
    /\ \A t \in TableSet : outcome[t] = "ok"

\* C5: a call of insert_data_to_db with an empty table opens no cursor,
\* issues no query, commits and rolls back nothing, raises nothing, logs no
\* error, and leaves every table of the store as it is.
C5_EmptyInsertIsNoOp ==
    [][\A t \in TableSet :
          (pc = InsertPc(t) /\ Len(DfOf(t)) = 0 /\ pc' # pc) =>
             /\ UNCHANGED <<db, queries, cursors, commits, rollbacks, raised,
                            logged, conn, failed>>
             /\ pc' # "except"]_vars

\* main() has called insert_data_to_db with an empty acquisitions table
C5_Witness ==
    /\ outcome["customer_acquisition"] = "empty"
    /\ Len(acquisitions_df) = 0
    /\ pc = "summary"

FloorDate == 0

\* the '-4y' window of registration dates, scaled down
RegWindow == 4

\* the latest current date considered
MaxToday == 5

Max(a, b) == IF a >= b THEN a ELSE b

\* fake.date_between(start_date, end_date): a date of the closed interval
date_between(start_date, end_date) == start_date..end_date

\* a mutation of randint: the upper end is included
randint_inclusive(low, high) == low..high

\* np.random.randint(low, high): an integer of the half-open interval
randint(low, high) == low..(high - 1)

\* a mutation of OrderStart: the registration date is ignored
OrderStart_floor_only(reg) == FloorDate

\* start_date=max(customer['registration_date'], datetime(2020, 1, 1).date())
OrderStart(reg) == Max(reg, FloorDate)

\* the offsets np.random.randint(1, 10) can return
ShipOffsets == randint(1, 10)

DatesInit ==
    /\ dpc = "customer"
    /\ today \in (FloorDate + 1)..MaxToday
    /\ registration_date = 0
    /\ order_date = 0
    /\ ship_offsets = {}
    /\ ship_offset = 0
    /\ ship_date = 0
    /\ MainIdle
    /\ PriceIdle
    /\ ReproIdle

\* generate_customers: reg_date = fake.date_between('-4y', 'today')
RegistrationDate ==
    /\ dpc = "customer"
    /\ registration_date' \in date_between(today - RegWindow, today)
    /\ dpc' = "order"
    /\ UNCHANGED <<today, order_date, ship_offsets, ship_offset, ship_date>>
    /\ UNCHANGED <<mainVars, priceVars, reproVars>>

\* midnight passes between the generation of the customers and of the orders
DayPasses ==
    /\ dpc = "order"
    /\ today < MaxToday
    /\ today' = today + 1
    /\ UNCHANGED <<dpc, registration_date, order_date, ship_offsets,
                   ship_offset, ship_date>>
    /\ UNCHANGED <<mainVars, priceVars, reproVars>>

\* generate_orders_and_items: order_date, ship_date, and the 10% nulling
OrderDates ==
    /\ dpc = "order"
    /\ order_date' \in date_between(OrderStart(registration_date), today)
    /\ ship_offsets' = ShipOffsets
    /\ ship_offset' \in ShipOffsets
    /\ \E shipped \in BOOLEAN :
         ship_date' = IF shipped THEN order_date' + ship_offset' ELSE Null
    /\ dpc' = "done"
    /\ UNCHANGED <<today, registration_date>>
    /\ UNCHANGED <<mainVars, priceVars, reproVars>>

DatesNext ==
    \/ RegistrationDate
    \/ DayPasses
    \/ OrderDates

SpecDates == DatesInit /\ [][DatesNext]_vars

\* C7: the order_date of every generated order is on or after the
\* registration_date of its customer and on or after 2020-01-01.
C7_OrderAfterRegistration ==
    dpc = "done" =>
        /\ order_date >= registration_date
        /\ order_date >= FloorDate

\* an order placed on the very day its customer registered, after the floor date
C7_Witness ==
    /\ dpc = "done"
    /\ registration_date > FloorDate
    /\ order_date = registration_date

\* C10 as stated: the offsets ship_date - order_date that can occur are
\* exactly 1, 2, ..., 10.
C10_OffsetsOneToTen ==
    dpc = "done" =>
        /\ ship_offsets = 1..10
        /\ ship_offset \in 1..10

\* C10 as amended: the offsets that can occur are exactly 1, 2, ..., 9; an
\* offset of 10 days never occurs, and a ship_date that is not null is the
\* order_date plus the offset.
C10_OffsetsOneToNine ==
    dpc = "done" =>
        /\ ship_offsets = 1..9
        /\ ship_offset \in 1..9
        /\ ship_date # Null => ship_date - order_date = ship_offset

\* an order shipped with the largest offset that occurs
C10_Witness ==
    /\ dpc = "done"
    /\ ship_offset = 9
    /\ ship_date = order_date + 9

(***************************************************************************)
(* SpecPrice: cost_price and list_price of one product, in cents; the      *)
(* markup factor in thousandths.                                           *)
(***************************************************************************)
Categories == {"Electronics", "Clothing", "Home", "Sports", "Books"}

\* the bounds of np.random.uniform(lo, hi) for cost_price, in cents
CostRange(c) ==
    CASE c = "Electronics" -> <<5000, 80000>>
      [] c = "Clothing" -> <<1000, 15000>>
      [] c = "Home" -> <<2000, 30000>>
      [] c = "Sports" -> <<1500, 20000>>
      [] c = "Books" -> <<800, 4000>>

\* the bounds of np.random.uniform(1.3, 2.5), in thousandths
MarkupLo == 1300
MarkupHi == 2500

\* how many values next to each end of a range are drawn
CostSpan == 3
MarkupSpan == 3

\* cost_price = round(np.random.uniform(lo, hi), 2): the cents near both ends
CostPrices(c) ==
    LET lo == CostRange(c)[1]
        hi == CostRange(c)[2]
    IN  (lo..(lo + CostSpan)) \cup ((hi - CostSpan)..hi)

\* np.random.uniform(1.3, 2.5), a value of [1.3, 2.5): thousandths near both ends
Markups ==
    (MarkupLo..(MarkupLo + MarkupSpan)) \cup ((MarkupHi - 1 - MarkupSpan)..(MarkupHi - 1))

\* a mutation of Round2: the thousandths are cut off
Round2_truncate(n) == {n \div 1000}

\* round(x, 2) of a price of n thousandths of a cent: the nearest cent; a
\* decimal tie falls to either side, as the binary value lies on either side
Round2(n) ==
    LET q == n \div 1000
        r == n % 1000
    IN  IF r < 500 THEN {q}
        ELSE IF r > 500 THEN {q + 1}
        ELSE {q, q + 1}

PriceInit ==
    /\ ppc = "cost"
    /\ category = "none"
    /\ cost_price = 0
    /\ markup = 0
    /\ list_price = 0
    /\ MainIdle
    /\ DatesIdle
    /\ ReproIdle

\* generate_products: the category and the cost_price
CostPrice ==
    /\ ppc = "cost"
    /\ \E c \in Categories :
         /\ category' = c
         /\ cost_price' \in CostPrices(c)
    /\ ppc' = "list"
    /\ UNCHANGED <<markup, list_price>>
    /\ UNCHANGED <<mainVars, dateVars, reproVars>>

\* list_price = round(cost_price * np.random.uniform(1.3, 2.5), 2)
ListPrice ==
    /\ ppc = "list"
    /\ \E u \in Markups :
         /\ markup' = u
         /\ list_price' \in Round2(cost_price * u)
    /\ ppc' = "done"
    /\ UNCHANGED <<category, cost_price>>
    /\ UNCHANGED <<mainVars, dateVars, reproVars>>

PriceNext ==
    \/ CostPrice
    \/ ListPrice

SpecPrice == PriceInit /\ [][PriceNext]_vars

\* C8 as stated: 1.3 x cost_price <= list_price <= 2.5 x cost_price for the
\* stored, rounded list_price.
C8_ListPriceWithinMarkup ==
    ppc = "done" =>
        /\ 10 * list_price >= 13 * cost_price
        /\ 10 * list_price <= 25 * cost_price

\* C8 as amended: 1.3 x cost_price - 0.005 <= list_price <= 2.5 x cost_price:
\* rounding to cents can put list_price up to half a cent below 1.3 x
\* cost_price; it stays within half a cent of cost_price x markup.
C8_ListPriceWithinHalfCent ==
    ppc = "done" =>
        /\ 10 * list_price >= 13 * cost_price - 5
        /\ 10 * list_price <= 25 * cost_price
        /\ 2 * (1000 * list_price - cost_price * markup) <= 1000
        /\ 2 * (cost_price * markup - 1000 * list_price) <= 1000

\* a product whose rounded list_price is below 1.3 x cost_price
C8_Witness ==
    /\ ppc = "done"
    /\ markup = MarkupLo
    /\ 10 * list_price < 13 * cost_price
    /\ 10 * list_price >= 13 * cost_price - 5

(***************************************************************************)
(* SpecRepro: generate_customers run twice, each run in a fresh process    *)
(* seeded with 42, possibly on different days.                             *)
(***************************************************************************)
\* the number of values a raw draw of the seeded generator is taken from
RawRange == 5

\* the raw draws a generator seeded with 42 delivers: unknown, but the same
\* in every process
Streams == [1..NCustomers -> 0..(RawRange - 1)]

\* fake.date_between(start, end) with raw draw r: the draw is mapped into the
\* closed interval of dates
DateFromDraw(start_date, end_date, r) ==
    start_date + (r % (end_date - start_date + 1))

ReproInit ==
    /\ stream \in Streams
    /\ run_today \in ((FloorDate + 1)..MaxToday) \X ((FloorDate + 1)..MaxToday)
    /\ run_out = <<<<>>, <<>>>>
    /\ MainIdle
    /\ DatesIdle
    /\ PriceIdle

\* one iteration of the loop of generate_customers in run k
GenerateCustomer(k) ==
    /\ Len(run_out[k]) < NCustomers
    /\ LET i == Len(run_out[k]) + 1
           reg_date == DateFromDraw(run_today[k] - RegWindow, run_today[k], stream[i])
       IN  run_out' = [run_out EXCEPT ![k] = Append(@, reg_date)]
    /\ UNCHANGED <<stream, run_today>>
    /\ UNCHANGED <<mainVars, dateVars, priceVars>>

FirstRun == GenerateCustomer(1)

SecondRun == GenerateCustomer(2)

ReproNext ==
    \/ FirstRun
    \/ SecondRun

SpecRepro == ReproInit /\ [][ReproNext]_vars

\* C9: two runs of the generators from the fixed seed, with the same counts,
\* produce identical tables, whatever else differs between the runs.
C9_RunsIdentical ==
    (Len(run_out[1]) = NCustomers /\ Len(run_out[2]) = NCustomers) =>
        run_out[1] = run_out[2]
====
